---- MODULE Spec2Model ----
(***************************************************************************)
(* Model of the merge engine of openapi-include (src/src/merger.js):       *)
(* Merger.merge and the generic walk mergeRefs with its three handlers     *)
(* handleRef, handleInclude and handleDiscriminator.                       *)
(*                                                                         *)
(* Documents are trees of tagged nodes.  A string is a sequence of tokens  *)
(* (path segments, the scheme token "http:", the marker "#", pointer       *)
(* segments), so that parsing and path joining are computed, not assumed.  *)
(* The one object the walk shares between its input and its output, the    *)
(* `mapping` object of a discriminator, lives in a heap and is referenced  *)
(* by address, so that its in-place mutation is visible to every holder.   *)
(***************************************************************************)
EXTENDS Integers, Sequences, FiniteSets, TLC

VARIABLES
  pc,            \* the position in Merger.merge
  doc,           \* the document passed to merge
  heap,          \* the mapping objects alive, by address
  manager,       \* this.manager.components
  nameResolver,  \* the names resolved between the passes
  ret,           \* the value of the second mergeRefs call
  out,           \* the document merge returns
  err,           \* the error merge threw, "" for none
  discovered,    \* the canonical keys registered by the first pass
  walks,         \* the keys whose content the current pass merged, in order
  skips,         \* how often the current pass took the same-document guard
  stack          \* the calls of mergeRefs and of the handlers' loops in progress

vars == <<pc, doc, heap, manager, nameResolver, ret, out, err, discovered, walks, skips, stack>>

(***************************************************************************)
(* Bounds of the model.                                                    *)
(***************************************************************************)
\* number of top-level keys of the root document
MaxKeys == 2
\* number of nested calls in progress beyond which the recursion is
\* reported as unbounded; the merges that return nest at most 16 calls
MaxDepth == 20

(***************************************************************************)
(* JavaScript values.                                                      *)
(***************************************************************************)
Node(t, v, items, kv, addr) == [t |-> t, v |-> v, items |-> items, kv |-> kv, addr |-> addr]
\* a string, as its tokens
Str(v) == Node("s", v, <<>>, <<>>, 0)
\* undefined
Undef == Node("u", <<>>, <<>>, <<>>, 0)
\* a hole of a sparse array
Hole == Node("h", <<>>, <<>>, <<>>, 0)
\* a plain object: its own keys in insertion order
Obj(kv) == Node("m", <<>>, <<>>, kv, 0)
\* an array: its elements, and the non-index properties set on it
Arr(items) == Node("a", <<>>, items, <<>>, 0)
\* a reference to the mapping object stored at heap address a
Ptr(a) == Node("p", <<>>, <<>>, <<>>, a)

\* _.isObject
isObject(n) == n.t \in {"m", "a"}
\* _.isArray
isArray(n) == n.t = "a"

\* F applied to the value of e, with e evaluated once
Bind(e, F(_)) == CHOOSE r \in {F(x) : x \in {e}} : TRUE

\* decimal rendering of array indices, as Object.entries yields them
NumStr == <<"0", "1", "2", "3", "4", "5", "6", "7", "8", "9", "10", "11">>
IsIndexKey(k) == \E i \in 1..Len(NumStr) : NumStr[i] = k
\* Number(key) for an index key (0-based)
IndexOf(k) == (CHOOSE i \in 1..Len(NumStr) : NumStr[i] = k) - 1

KeyPos(kv, k) == IF \E i \in 1..Len(kv) : kv[i][1] = k
                 THEN CHOOSE i \in 1..Len(kv) : kv[i][1] = k
                 ELSE 0

\* key in obj
Has(o, k) == IF isArray(o) /\ IsIndexKey(k)
             THEN IndexOf(k) < Len(o.items) /\ o.items[IndexOf(k) + 1].t # "h"
             ELSE KeyPos(o.kv, k) # 0

\* obj[key]
Get(o, k) == IF ~Has(o, k) THEN Undef
             ELSE IF isArray(o) /\ IsIndexKey(k) THEN o.items[IndexOf(k) + 1]
             ELSE o.kv[KeyPos(o.kv, k)][2]

\* obj[key] = val
SetProp(o, k, val) ==
  IF isArray(o) /\ IsIndexKey(k)
  THEN LET i == IndexOf(k) + 1
           n == Len(o.items)
       IN [o EXCEPT !.items = IF i <= n THEN [@ EXCEPT ![i] = val]
                               ELSE @ \o [j \in 1..(i - n - 1) |-> Hole] \o <<val>>]
  ELSE LET p == KeyPos(o.kv, k)
       IN [o EXCEPT !.kv = IF p # 0 THEN [@ EXCEPT ![p] = <<k, val>>]
                            ELSE Append(@, <<k, val>>)]

\* delete obj[key], for a non-index key
DelProp(o, k) ==
  LET p == KeyPos(o.kv, k)
  IN IF p = 0 THEN o
     ELSE [o EXCEPT !.kv = SubSeq(@, 1, p - 1) \o SubSeq(@, p + 1, Len(@))]

RECURSIVE IndexEntries(_, _)
IndexEntries(items, i) ==
  IF i > Len(items) THEN <<>>
  ELSE (IF items[i].t = "h" THEN <<>> ELSE << <<NumStr[i], items[i]>> >>)
       \o IndexEntries(items, i + 1)

\* Object.entries(obj): index keys first (holes skipped), then the other keys
Entries(o) == IF isArray(o) THEN IndexEntries(o.items, 1) \o o.kv ELSE o.kv

\* arr.splice(start, 1) with start = Number(key); Number of a non-index key
\* is NaN, which splice takes as 0
Splice1(o, k) ==
  LET s == IF IsIndexKey(k) THEN IndexOf(k) ELSE 0
  IN IF s >= Len(o.items) THEN o
     ELSE [o EXCEPT !.items = SubSeq(@, 1, s) \o SubSeq(@, s + 2, Len(@))]

\* a.concat(b): a new array of the elements of both; non-index properties
\* of a are not copied
Concat(a, b) == Arr(a.items \o b.items)

(***************************************************************************)
(* Strings: reference values and locations.                                *)
(***************************************************************************)
\* the position of the first "#" token, or 0
HashPos(u) == IF \E i \in 1..Len(u) : u[i] = "#"
              THEN CHOOSE i \in 1..Len(u) : u[i] = "#" /\ \A j \in 1..(i - 1) : u[j] # "#"
              ELSE 0

\* util.parseUrl: a scheme-qualified string is remote, a string beginning
\* with "#" is same-document, and the string splits at its first "#"
parseUrl(u) ==
  LET h == HashPos(u)
  IN [isHttp     |-> Len(u) > 0 /\ u[1] = "http:",
      isLocal    |-> Len(u) > 0 /\ u[1] = "#",
      href       |-> u,
      hrefWoHash |-> IF h = 0 THEN u ELSE SubSeq(u, 1, h - 1),
      hash       |-> IF h = 0 THEN <<>> ELSE SubSeq(u, h, Len(u))]

\* Path.dirname
PathDirname(p) == IF Len(p) = 0 THEN p ELSE SubSeq(p, 1, Len(p) - 1)

RECURSIVE Normalize(_, _)
\* path normalisation: "." segments dropped, ".." drops the segment before it
Normalize(p, acc) ==
  IF Len(p) = 0 THEN acc
  ELSE IF Head(p) = "." THEN Normalize(Tail(p), acc)
  ELSE IF Head(p) = ".." /\ Len(acc) > 0 THEN Normalize(Tail(p), SubSeq(acc, 1, Len(acc) - 1))
  ELSE Normalize(Tail(p), Append(acc, Head(p)))

\* Path.join(dir, val)
PathJoin(dir, val) == Normalize(dir \o val, <<>>)
\* Url.resolve(dir + "/", val) for a relative val
UrlResolve(dir, val) == Normalize(dir \o val, <<>>)
\* Path.relative(dir, p) for p below dir
PathRelative(dir, p) == SubSeq(p, Len(dir) + 1, Len(p))

\* Path.basename(f, Path.extname(f)) of a file name
Stem(f) ==
  CASE f = "root.yaml" -> "root"
    [] f = "Cat.yaml" -> "Cat"
    [] f = "Pet.yaml" -> "Pet"
    [] f = "Zoo.yaml" -> "Zoo"
    [] f = "schemas.yaml" -> "schemas"
    [] f = "tree.yaml" -> "tree"
    [] f = "list.yaml" -> "list"
    [] f = "empty.yaml" -> "empty"
    [] f = "map.yaml" -> "map"
    [] f = "text.yaml" -> "text"
    [] f = "a.yaml" -> "a"
    [] f = "a.json" -> "a"
    [] f = "b.yaml" -> "b"
    [] f = "E.yaml" -> "E"
    [] f = "F.yaml" -> "F"
    [] OTHER -> f

\* process.cwd()
Cwd == <<"w">>
\* Path.resolve(process.cwd(), inputFile)
currentFile == Cwd \o <<"root.yaml">>

(***************************************************************************)
(* The files and URLs the loader can read.                                 *)
(***************************************************************************)
S1(a) == Str(<<a>>)
RefTo(u) == Obj(<< <<"$ref", Str(u)>> >>)
IncludeOf(u) == Obj(<< <<"$include", Str(u)>> >>)
\* a parsed file: its tree and the mapping objects its Ptr nodes name
Parsed(content, table) == [ok |-> TRUE, content |-> content, table |-> table]
NoFile == [ok |-> FALSE, content |-> Undef, table |-> <<>>]

CatFile == Obj(<< <<"type", S1("cat")>>, <<"base", RefTo(<<"Pet.yaml">>)>> >>)
PetFile == Obj(<< <<"type", S1("pet")>> >>)
SubCatFile == Obj(<< <<"type", S1("subcat")>> >>)
ZooFile == Obj(<< <<"discriminator",
                    Obj(<< <<"propertyName", S1("type")>>, <<"mapping", Ptr(1)>> >>)>> >>)
ZooTable == << Obj(<< <<"cat", Str(<<"Cat.yaml">>)>>, <<"pet", Str(<<".", "Pet.yaml">>)>> >>) >>
\* the schemas fixture: Cat and Dog reference #/Pet, Pet's discriminator
\* mapping references #/Cat and #/Dog, Pets references #/Pet
SchemasFile ==
  Obj(<< <<"Cat", Obj(<< <<"allOf", Arr(<< RefTo(<<"#", "Pet">>),
                                            Obj(<< <<"type", S1("object")>> >>) >>)>> >>)>>,
         <<"Dog", Obj(<< <<"allOf", Arr(<< RefTo(<<"#", "Pet">>) >>)>> >>)>>,
         <<"Pet", Obj(<< <<"type", S1("object")>>,
                         <<"discriminator",
                           Obj(<< <<"propertyName", S1("type")>>, <<"mapping", Ptr(1)>> >>)>> >>)>>,
         <<"Pets", Obj(<< <<"type", S1("array")>>, <<"items", RefTo(<<"#", "Pet">>)>> >>)>> >>)
SchemasTable == << Obj(<< <<"cat", Str(<<"#", "Cat">>)>>, <<"dog", Str(<<"#", "Dog">>)>> >>) >>
\* a schema that references itself
TreeFile == Obj(<< <<"Node", Obj(<< <<"next", RefTo(<<"#", "Node">>)>> >>)>> >>)
ListFile == Arr(<< S1("x"), S1("y") >>)
EmptyFile == Arr(<<>>)
MapFile == Obj(<< <<"alpha", S1("1")>>, <<"beta", RefTo(<<"Pet.yaml">>)>> >>)
TextFile == Obj(<< <<"text", S1("hello")>> >>)
PartA == Obj(<< <<"pa", S1("1")>> >>)
PartB == Obj(<< <<"pb", RefTo(<<"..", "Pet.yaml">>)>> >>)
PartAJson == Obj(<< <<"pj", S1("3")>> >>)
OtherA == Obj(<< <<"po", S1("4")>> >>)
RemoteE == Obj(<< <<"type", S1("error")>>, <<"inner", RefTo(<<"F.yaml">>)>> >>)
RemoteF == Obj(<< <<"type", S1("f")>> >>)

\* the files below the working directory and the documents behind URLs
FileAt(p) ==
  CASE p = <<"w", "Cat.yaml">> -> Parsed(CatFile, <<>>)
    [] p = <<"w", "Pet.yaml">> -> Parsed(PetFile, <<>>)
    [] p = <<"w", "sub", "Cat.yaml">> -> Parsed(SubCatFile, <<>>)
    [] p = <<"w", "Zoo.yaml">> -> Parsed(ZooFile, ZooTable)
    [] p = <<"w", "schemas.yaml">> -> Parsed(SchemasFile, SchemasTable)
    [] p = <<"w", "tree.yaml">> -> Parsed(TreeFile, <<>>)
    [] p = <<"w", "list.yaml">> -> Parsed(ListFile, <<>>)
    [] p = <<"w", "empty.yaml">> -> Parsed(EmptyFile, <<>>)
    [] p = <<"w", "map.yaml">> -> Parsed(MapFile, <<>>)
    [] p = <<"w", "text.yaml">> -> Parsed(TextFile, <<>>)
    [] p = <<"w", "parts", "a.yaml">> -> Parsed(PartA, <<>>)
    [] p = <<"w", "parts", "b.yaml">> -> Parsed(PartB, <<>>)
    [] p = <<"w", "parts", "a.json">> -> Parsed(PartAJson, <<>>)
    [] p = <<"w", "other", "a.yaml">> -> Parsed(OtherA, <<>>)
    [] p = <<"http:", "h", "E.yaml">> -> Parsed(RemoteE, <<>>)
    [] p = <<"http:", "h", "F.yaml">> -> Parsed(RemoteF, <<>>)
    [] OTHER -> NoFile

\* Glob.sync(pattern): the matching paths in the expander's order; a path
\* without a pattern matches itself when the file exists
GlobSync(p) ==
  CASE p = <<"w", "parts", "*.yaml">> -> << <<"w", "parts", "a.yaml">>, <<"w", "parts", "b.yaml">> >>
    [] p = <<"w", "parts", "*">> -> << <<"w", "parts", "a.json">>, <<"w", "parts", "a.yaml">>,
                                       <<"w", "parts", "b.yaml">> >>
    [] p = <<"w", "**", "a.yaml">> -> << <<"w", "other", "a.yaml">>, <<"w", "parts", "a.yaml">> >>
    [] OTHER -> IF p = currentFile \/ FileAt(p).ok THEN <<p>> ELSE <<>>

RECURSIVE Rebase(_, _)
RECURSIVE RebaseKv(_, _)
\* the tree of a freshly parsed file: its mapping objects get addresses of
\* their own, after the base objects already allocated
Rebase(n, base) ==
  IF n.t = "p" THEN Ptr(n.addr + base)
  ELSE IF n.t = "m" THEN Obj(RebaseKv(n.kv, base))
  ELSE IF n.t = "a" THEN [Arr([i \in 1..Len(n.items) |-> Rebase(n.items[i], base)])
                            EXCEPT !.kv = RebaseKv(n.kv, base)]
  ELSE n
RebaseKv(kv, base) == [i \in 1..Len(kv) |-> <<kv[i][1], Rebase(kv[i][2], base)>>]

\* yaml.readYAML / http.download: each call parses anew, so the objects of
\* one load are not those of another.  The root document is read from disk
\* as it was given.  A missing file fails the load.
readYAML(c, p) ==
  Bind(IF p = currentFile THEN c.disk ELSE FileAt(p),
       LAMBDA f :
         IF ~f.ok THEN [content |-> Undef, ctx |-> [c EXCEPT !.err = "load"]]
         ELSE [content |-> Rebase(f.content, Len(c.heap)),
               ctx |-> [c EXCEPT !.heap = @ \o f.table]])
download(c, p) == readYAML(c, p)

RECURSIVE SliceAt(_, _, _)
SliceAt(n, segs, i) ==
  IF i > Len(segs) THEN n
  ELSE IF isObject(n) /\ Has(n, segs[i]) THEN SliceAt(Get(n, segs[i]), segs, i + 1)
  ELSE Undef
\* util.sliceObject(obj, hash): the sub-tree at the pointer, the whole
\* object without one
sliceObject(n, hash) == IF Len(hash) = 0 THEN n ELSE SliceAt(n, hash, 2)

(***************************************************************************)
(* Keys of the inclusion directive, json paths.                            *)
(***************************************************************************)
\* key.match(Merger.INCLUDE_PATTERN) on the keys of the model
IncludeKeys == {"$include", "$include/^a/"}
IsIncludeKey(k) == k \in IncludeKeys
\* getKeyPattern(key): the text between the slashes, "" for none
getKeyPattern(k) == IF k = "$include/^a/" THEN "^a" ELSE ""
\* new RegExp(pattern).test(key) on the keys of the model
RegexTest(pattern, k) == pattern = "^a" /\ k \in {"a", "alpha"}

RECURSIVE FilterKv(_, _, _)
FilterKv(kv, pattern, i) ==
  IF i > Len(kv) THEN <<>>
  ELSE (IF RegexTest(pattern, kv[i][1]) THEN <<kv[i]>> ELSE <<>>) \o FilterKv(kv, pattern, i + 1)
\* util.filterObject(obj, keyPattern): only the matching keys, everything
\* without a pattern
filterObject(n, pattern) ==
  IF pattern = "" \/ n.t # "m" THEN n ELSE Obj(FilterKv(n.kv, pattern, 1))

\* keys below which a reference is literal text to be inlined
InlineKeys == {"description"}
\* ref.getRefType(jsonPath): the component kind of the position, "unknown"
\* for a position that is no component registry
getRefType(jp) == IF jp[Len(jp)] \in InlineKeys THEN "unknown" ELSE "schemas"
\* ref.shouldInclude(refType)
shouldInclude(refType) == refType = "unknown"

(***************************************************************************)
(* lodash merge.                                                           *)
(***************************************************************************)
RECURSIVE lodashMerge(_, _)
RECURSIVE lodashMergeLoop(_, _, _)
\* _.merge(object, source): own keys of source merged into object,
\* recursively for objects and arrays; an undefined source value does not
\* replace an existing one
lodashMerge(dst, src) ==
  IF ~isObject(src) THEN dst
  ELSE Bind(<<dst, Entries(src)>>, LAMBDA a : lodashMergeLoop(a[1], a[2], 1))
lodashMergeLoop(dst, es, i) ==
  IF i > Len(es) THEN dst
  ELSE LET k == es[i][1]
           sv == es[i][2]
           dv == Get(dst, k)
           nv == IF isObject(sv)
                 THEN (IF isObject(dv) /\ (isArray(dv) \/ ~isArray(sv))
                       THEN lodashMerge(dv, sv)
                       ELSE lodashMerge(IF isArray(sv) THEN Arr(<<>>) ELSE Obj(<<>>), sv))
                 ELSE sv
       IN Bind(IF sv.t = "u" /\ Has(dst, k) THEN dst ELSE SetProp(dst, k, nv),
               LAMBDA d : lodashMergeLoop(d, es, i + 1))

(***************************************************************************)
(* The component registry and the name resolver.                           *)
(***************************************************************************)
\* Component.getLocalRef: #/components/<type>/<name>
getLocalRef(cmp) == <<"#", "components", cmp.type, cmp.name>>

\* ComponentManager.get(url): the position of the component registered
\* under this string, as its canonical key or as its local pointer; 0 for
\* none
get(c, url) ==
  IF \E i \in 1..Len(c.cmps) : c.cmps[i].url = url \/ getLocalRef(c.cmps[i]) = url
  THEN CHOOSE i \in 1..Len(c.cmps) : c.cmps[i].url = url \/ getLocalRef(c.cmps[i]) = url
  ELSE 0

\* the terminal identifier of a canonical key: the last pointer segment, or
\* the file stem
DefaultName(url) ==
  LET pUrl == parseUrl(url)
  IN IF Len(pUrl.hash) > 1 THEN pUrl.hash[Len(pUrl.hash)]
     ELSE Stem(pUrl.hrefWoHash[Len(pUrl.hrefWoHash)])

\* ComponentNameResolver: the default name, with a suffix counting the
\* earlier components of the same default name
ComponentNameResolver(cmps) ==
  [i \in 1..Len(cmps) |->
     LET n == DefaultName(cmps[i].url)
         k == Cardinality({j \in 1..(i - 1) : DefaultName(cmps[j].url) = n})
     IN [url |-> cmps[i].url, name |-> IF k = 0 THEN n ELSE n \o "_" \o NumStr[k + 1]]]

\* the name a new component gets: the resolved one in the second pass, the
\* provisional default otherwise
ResolvedName(c, url) ==
  IF c.seeded /\ \E i \in 1..Len(c.names) : c.names[i].url = url
  THEN c.names[CHOOSE i \in 1..Len(c.names) : c.names[i].url = url].name
  ELSE DefaultName(url)

\* ComponentManager.getOrCreate(type, url): the component of this key,
\* loaded, sliced and registered when it is new
getOrCreate(c, type, url) ==
  IF get(c, url) # 0 THEN [idx |-> get(c, url), ctx |-> c]
  ELSE LET pUrl == parseUrl(url)
       IN Bind(IF pUrl.isHttp THEN download(c, pUrl.hrefWoHash) ELSE readYAML(c, pUrl.hrefWoHash),
               LAMBDA ld :
                 IF ld.ctx.err # "" THEN [idx |-> 0, ctx |-> ld.ctx]
                 ELSE [idx |-> Len(c.cmps) + 1,
                       ctx |-> [ld.ctx EXCEPT !.cmps =
                                  Append(@, [type |-> type, name |-> ResolvedName(c, url),
                                             url |-> url,
                                             content |-> sliceObject(ld.content, pUrl.hash)])]])

RECURSIVE SectionLoop(_, _, _)
SectionLoop(cmps, i, section) ==
  IF i > Len(cmps) THEN section
  ELSE LET t == cmps[i].type
           byType == IF Has(section, t) THEN Get(section, t) ELSE Obj(<<>>)
       IN Bind(SetProp(section, t, SetProp(byType, cmps[i].name, cmps[i].content)),
               LAMBDA x : SectionLoop(cmps, i + 1, x))
\* ComponentManager.getComponentsSection: type -> name -> content
getComponentsSection(cmps) == SectionLoop(cmps, 1, Obj(<<>>))

(***************************************************************************)
(* Merger.                                                                 *)
(***************************************************************************)
\* handleRef, lines 85-105: the canonical key of the referenced target
RefTarget(pRef, pFile, val) ==
  IF pRef.isHttp THEN pRef.href
  ELSE IF pRef.isLocal THEN pFile.hrefWoHash \o pRef.hash
  ELSE IF pFile.isHttp THEN UrlResolve(PathDirname(pFile.hrefWoHash), val)
  ELSE PathJoin(PathDirname(pFile.hrefWoHash), val)

\* a handleRef that writes the component's canonical key where line 107
\* writes its local pointer
SubstituteRefByUrl(o, key, cmp) == SetProp(o, key, Str(cmp.url))

\* handleRef, line 107: ret[key] = cmp.getLocalRef()
SubstituteRef(o, key, cmp) == SetProp(o, key, Str(getLocalRef(cmp)))

\* mergeRefs, lines 62-68: a sequence merged into a sequence is spliced
\* out at its index and its elements are appended; anything else is
\* written back under its key
WriteMerged(r, key, merged) ==
  IF isArray(r) /\ isArray(merged) THEN Concat(Splice1(r, key), merged)
  ELSE SetProp(r, key, merged)

\* handleInclude, lines 163-174: a sequence result joins a sequence,
\* replaces a map whose only key is the directive, and fails otherwise
MergeArray(r, merged) ==
  IF isArray(r) THEN [ok |-> TRUE, ret |-> Concat(r, merged)]
  ELSE IF Len(Entries(r)) = 1 THEN [ok |-> TRUE, ret |-> merged]
  ELSE [ok |-> FALSE, ret |-> r]

\* handleInclude, lines 176-179: a map result is filtered, merged into the
\* surrounding object, and the directive key deleted
MergeObject(r, key, merged, keyPattern) ==
  Bind(lodashMerge(r, filterObject(merged, keyPattern)), LAMBDA x : DelProp(x, key))

(***************************************************************************)
(* The documents merge is called with.                                     *)
(***************************************************************************)
Discriminator(addr) == Obj(<< <<"propertyName", S1("type")>>, <<"mapping", Ptr(addr)>> >>)

\* the mapping objects of the root document
RootTable ==
  << Obj(<< <<"cat", Str(<<"Cat.yaml">>)>>,
            <<"dog", Str(<<"#", "components", "schemas", "Dog">>)>> >>) >>

\* the top-level entries a root document is assembled from
Fragments ==
  << <<"schema", RefTo(<<"Cat.yaml">>)>>,
     <<"items", RefTo(<<".", "Cat.yaml">>)>>,
     <<"other", RefTo(<<"sub", "Cat.yaml">>)>>,
     <<"pets", RefTo(<<"schemas.yaml", "#", "Pets">>)>>,
     <<"node", RefTo(<<"tree.yaml", "#", "Node">>)>>,
     <<"Animal", Obj(<< <<"type", S1("object")>>, <<"discriminator", Discriminator(1)>> >>)>>,
     <<"components", Obj(<< <<"schemas", Obj(<< <<"Cat", Obj(<< <<"type", S1("localcat")>> >>)>>,
                                                <<"Dog", Obj(<< <<"type", S1("localdog")>> >>)>> >>)>> >>)>>,
     <<"link", RefTo(<<"#", "components", "schemas", "Cat">>)>>,
     <<"zoo", RefTo(<<"Zoo.yaml">>)>>,
     <<"remote", RefTo(<<"http:", "h", "E.yaml">>)>>,
     <<"description", RefTo(<<"text.yaml">>)>>,
     <<"list", Arr(<< Arr(<< S1("x"), S1("y") >>), S1("b") >>)>>,
     <<"seq", Arr(<< IncludeOf(<<"list.yaml">>), S1("c") >>)>>,
     <<"seq0", Arr(<< S1("a"), IncludeOf(<<"empty.yaml">>), S1("c") >>)>>,
     <<"first", Obj(<< <<"$include", Str(<<"list.yaml">>)>>, <<"k", S1("v")>> >>)>>,
     <<"middle", Obj(<< <<"k", S1("v")>>, <<"$include", Str(<<"list.yaml">>)>>, <<"l", S1("w")>> >>)>>,
     <<"last", Obj(<< <<"k", S1("v")>>, <<"$include", Str(<<"list.yaml">>)>> >>)>>,
     <<"only", IncludeOf(<<"list.yaml">>)>>,
     <<"parts", IncludeOf(<<"parts", "*.yaml">>)>>,
     <<"all", IncludeOf(<<"parts", "*">>)>>,
     <<"deep", IncludeOf(<<"**", "a.yaml">>)>>,
     <<"inc", Obj(<< <<"own", S1("1")>>, <<"$include", Str(<<"map.yaml">>)>> >>)>>,
     <<"filtered", Obj(<< <<"$include/^a/", Str(<<"map.yaml">>)>> >>)>>,
     <<"title", S1("api")>>,
     <<"info", Obj(<< <<"tags", Arr(<< S1("x"), S1("y"), S1("z") >>)>> >>)>> >>

RECURSIVE Choices(_)
\* the strictly increasing index sequences of length at most n
Choices(n) ==
  IF n = 0 THEN {<<>>}
  ELSE LET prev == Choices(n - 1)
       IN prev \cup {Append(s, i) : s \in {q \in prev : Len(q) = n - 1},
                                    i \in 1..Len(Fragments)} 

Increasing(s) == \A i \in 1..(Len(s) - 1) : s[i] < s[i + 1]

\* the root documents: up to MaxKeys of the entries, in their order
RootDocs == {Obj([i \in 1..Len(s) |-> Fragments[s[i]]]) :
               s \in {q \in Choices(MaxKeys) : Len(q) > 0 /\ Increasing(q)}}

RECURSIVE Deref(_, _)
\* a tree with every mapping object written out
Deref(n, h) ==
  IF n.t = "p" THEN h[n.addr]
  ELSE IF n.t = "m" THEN Obj([i \in 1..Len(n.kv) |-> <<n.kv[i][1], Deref(n.kv[i][2], h)>>])
  ELSE IF n.t = "a"
  THEN [Arr([i \in 1..Len(n.items) |-> Deref(n.items[i], h)])
          EXCEPT !.kv = [i \in 1..Len(n.kv) |-> <<n.kv[i][1], Deref(n.kv[i][2], h)>>]]
  ELSE n

\* the root document as the loader reads it from disk
Disk == Parsed(doc, RootTable)

(***************************************************************************)
(* The calls in progress.  merge awaits every call it makes, so the calls  *)
(* form a stack; the last frame is the one running.                        *)
(*   walk: a mergeRefs call, at entry i of Object.entries(obj), with the   *)
(*         ret built so far in obj; caller tells who awaits its value:     *)
(*         "root" (merge), "child" (mergeRefs, line 61), "ref" (handleRef, *)
(*         line 108) or "inc" (handleInclude, line 162)                    *)
(*   glob: the loop of handleInclude over the matched files                *)
(*   disc: the loop of handleDiscriminator over the mapping entries        *)
(* For a call of handleInclude, mode tells what its caller does with the   *)
(* outcome: "loop" (mergeRefs assigns the returned value to ret), "ref"    *)
(* (handleRef drops it and keeps the object passed in), "heap" (the same,  *)
(* for a mapping object) or "glob" (the loop stores it under the base      *)
(* name bn).                                                               *)
(***************************************************************************)
Frame(kind, caller, es, i, obj, file, jp, key, idx, mode, addr, r, bn, hash, nextFile) ==
  [kind |-> kind, caller |-> caller, es |-> es, i |-> i, obj |-> obj, file |-> file,
   jp |-> jp, key |-> key, idx |-> idx, mode |-> mode, addr |-> addr, r |-> r, bn |-> bn,
   hash |-> hash, nextFile |-> nextFile]

\* a call mergeRefs(obj, file, jsonPath), lines 48-51: a value that is no
\* object is returned as it is
WalkFrame(obj, file, jp, caller, key, idx, mode, addr, r, bn) ==
  Frame("walk", caller, IF isObject(obj) THEN Entries(obj) ELSE <<>>, 1,
        IF ~isObject(obj) THEN obj ELSE IF isArray(obj) THEN Arr(<<>>) ELSE Obj(<<>>),
        file, jp, key, idx, mode, addr, r, bn, <<>>, <<>>)

\* the registry, the heap and the calls in progress, as one value
M == [cmps |-> manager, heap |-> heap, err |-> err, walks |-> walks, skips |-> skips,
      names |-> nameResolver, seeded |-> (pc = "pass2"), disk |-> Disk, stack |-> stack]

Top(m) == m.stack[Len(m.stack)]
Pop(m) == [m EXCEPT !.stack = SubSeq(@, 1, Len(@) - 1)]
SetTop(m, f) == [m EXCEPT !.stack[Len(m.stack)] = f]
\* a call is made; beyond MaxDepth calls the recursion counts as unbounded
Push(m, f) == IF Len(m.stack) >= MaxDepth THEN [m EXCEPT !.err = "stack"]
              ELSE [m EXCEPT !.stack = Append(@, f)]

\* what the caller of handleInclude does with its outcome: returned is the
\* value returned, orig the object passed in as the call left it
Deliver(m, mode, addr, returned, orig, bn) ==
  IF mode = "loop" THEN SetTop(m, [Top(m) EXCEPT !.obj = returned])
  ELSE IF mode = "ref" THEN SetTop(m, [Top(m) EXCEPT !.obj = orig])
  ELSE IF mode = "heap" THEN [m EXCEPT !.heap[addr] = orig]
  ELSE SetTop(m, [Top(m) EXCEPT !.obj = SetProp(@, bn, returned)])

\* handleInclude, lines 112-162: the content is loaded and sliced, and
\* mergeRefs is called on it; for a glob matching several files the loop
\* over them is entered first
handleInclude(m, mode, addr, r, key, val, file, jp, bn) ==
  LET pRef == parseUrl(val.v)
      pFile == parseUrl(file)
      dir == PathDirname(pFile.hrefWoHash)
      target == IF pFile.isHttp THEN UrlResolve(dir, val.v) ELSE PathJoin(dir, val.v)
      parsedTarget == parseUrl(target)
      matchedFiles == LET g == GlobSync(parsedTarget.hrefWoHash)
                      IN [i \in 1..Len(g) |-> PathRelative(dir, g[i])]
      isGlob == ~pRef.isHttp /\ ~pRef.isLocal /\ ~parsedTarget.isHttp /\ Len(matchedFiles) > 1
      nextFile == IF pRef.isHttp THEN pRef.hrefWoHash
                  ELSE IF pRef.isLocal THEN pFile.hrefWoHash
                  ELSE parsedTarget.hrefWoHash
  IN IF pRef.isLocal /\ get(m, val.v) # 0
     THEN Deliver([m EXCEPT !.skips = @ + 1], mode, addr, r, r, bn)
     ELSE IF isGlob
     THEN Push(m, Frame("glob", "", matchedFiles, 1, Obj(<<>>), file, jp, key, 0, mode, addr,
                        r, bn, pRef.hash, nextFile))
     ELSE Bind(IF pRef.isHttp THEN download(m, pRef.hrefWoHash)
               ELSE IF pRef.isLocal THEN readYAML(m, file)
               ELSE IF parsedTarget.isHttp THEN download(m, parsedTarget.hrefWoHash)
               ELSE readYAML(m, parsedTarget.hrefWoHash),
               LAMBDA ld :
                 IF ld.ctx.err # "" THEN ld.ctx
                 ELSE Push(ld.ctx, WalkFrame(sliceObject(ld.content, pRef.hash), nextFile, jp,
                                             "inc", key, 0, mode, addr, r, bn)))

\* handleRef, lines 75-108 up to the call of mergeRefs on the component's
\* content.  The object written to is the ret of the running mergeRefs
\* call or, from handleDiscriminator, the mapping object at heap address
\* addr.
handleRef(m, addr, key, val, file, jp) ==
  LET pRef == parseUrl(val.v)
      pFile == parseUrl(file)
      refType == getRefType(jp)
      url == RefTarget(pRef, pFile, val.v)
      nextFile == parseUrl(url).hrefWoHash
  IN IF shouldInclude(refType)
     THEN handleInclude(m, IF addr = 0 THEN "ref" ELSE "heap", addr,
                        IF addr = 0 THEN Top(m).obj ELSE m.heap[addr], key, val, file, jp, "")
     ELSE IF pRef.isLocal /\ get(m, val.v) # 0 THEN [m EXCEPT !.skips = @ + 1]
     ELSE Bind(getOrCreate(m, refType, url),
               LAMBDA g :
                 IF g.ctx.err # "" THEN g.ctx
                 ELSE LET cmp == g.ctx.cmps[g.idx]
                          m1 == IF addr = 0
                                THEN SetTop(g.ctx, [Top(g.ctx) EXCEPT
                                                      !.obj = SubstituteRef(@, key, cmp)])
                                ELSE [g.ctx EXCEPT !.heap[addr] = SubstituteRef(@, key, cmp)]
                      IN Push([m1 EXCEPT !.walks = Append(@, url)],
                              WalkFrame(cmp.content, nextFile, jp, "ref", key, g.idx, "", 0,
                                        Undef, "")))

\* the entry of Object.entries(obj) the running mergeRefs call is at
CurKey == Top(M).es[Top(M).i][1]
CurVal == Top(M).es[Top(M).i][2]
Walking == /\ pc \in {"pass1", "pass2"}
           /\ Top(M).kind = "walk"
           /\ Top(M).i <= Len(Top(M).es)
\* line 53, ret[key] = val, and the loop moves on to the next entry once
\* the handler of this one has returned
Entered == SetTop(M, [Top(M) EXCEPT !.i = @ + 1, !.obj = SetProp(@, CurKey, CurVal)])

\* the state after a step: a thrown error ends merge
Becomes(m) ==
  /\ manager' = m.cmps
  /\ heap' = m.heap
  /\ err' = m.err
  /\ walks' = m.walks
  /\ skips' = m.skips
  /\ stack' = IF m.err # "" THEN <<>> ELSE m.stack
  /\ pc' = IF m.err # "" THEN "failed" ELSE pc
  /\ UNCHANGED <<doc, nameResolver, ret, out, discovered>>

(***************************************************************************)
(* Merger.merge, step by step.                                             *)
(***************************************************************************)
Init ==
  /\ pc = "start"
  /\ doc \in RootDocs
  /\ heap = RootTable
  /\ manager = <<>>
  /\ nameResolver = <<>>
  /\ ret = Undef
  /\ out = Undef
  /\ err = ""
  /\ discovered = <<>>
  /\ walks = <<>>
  /\ skips = 0
  /\ stack = <<>>

\* lines 31-32: a fresh registry, and mergeRefs is called on the document
Pass1 ==
  /\ pc = "start"
  /\ pc' = "pass1"
  /\ manager' = <<>>
  /\ stack' = << WalkFrame(doc, currentFile, <<"$">>, "root", "", 0, "", 0, Undef, "") >>
  /\ UNCHANGED <<doc, heap, nameResolver, ret, out, err, discovered, walks, skips>>

\* mergeRefs, lines 54-55: a $ref key
WalkRef ==
  /\ Walking
  /\ CurKey = "$ref"
  /\ \E e \in {Entered} :
       \E m \in {handleRef(e, 0, CurKey, CurVal, Top(M).file, Top(M).jp)} : Becomes(m)

\* mergeRefs, lines 56-57: an inclusion directive
WalkInclude ==
  /\ Walking
  /\ IsIncludeKey(CurKey)
  /\ \E e \in {Entered} :
       \E m \in {handleInclude(e, "loop", 0, Top(e).obj, CurKey, CurVal,
                               Top(M).file, Top(M).jp, "")} : Becomes(m)

\* mergeRefs, lines 58-59, and handleDiscriminator, lines 185-188: the loop
\* over the entries the mapping has at this moment is entered
WalkDiscriminator ==
  /\ Walking
  /\ CurKey = "discriminator"
  /\ \E e \in {Entered} :
       \E m \in {IF ~(isObject(CurVal) /\ Has(CurVal, "mapping")) THEN e
                 ELSE Push(e, Frame("disc", "", Entries(heap[Get(CurVal, "mapping").addr]), 1,
                                    Undef, Top(M).file, Top(M).jp, CurKey, 0, "",
                                    Get(CurVal, "mapping").addr, Undef, "", <<>>, <<>>))} :
         Becomes(m)

\* mergeRefs, line 61: any other key, mergeRefs is called on the value
WalkChild ==
  /\ Walking
  /\ CurKey # "$ref" /\ ~IsIncludeKey(CurKey) /\ CurKey # "discriminator"
  /\ \E e \in {Entered} :
       \E m \in {Push(e, WalkFrame(CurVal, Top(M).file, Append(Top(M).jp, CurKey), "child",
                                   CurKey, 0, "", 0, Undef, ""))} : Becomes(m)

Returning(caller) == /\ pc \in {"pass1", "pass2"}
                     /\ Top(M).kind = "walk"
                     /\ Top(M).i > Len(Top(M).es)
                     /\ Top(M).caller = caller

\* mergeRefs, lines 62-68 and 71: the call made at line 61 returns
ReturnChild ==
  /\ Returning("child")
  /\ \E m \in {SetTop(Pop(M), [Top(Pop(M)) EXCEPT
                                  !.obj = WriteMerged(@, Top(M).key, Top(M).obj)])} : Becomes(m)

\* handleRef, line 108: the merged content is assigned to the component
ReturnRef ==
  /\ Returning("ref")
  /\ \E m \in {[Pop(M) EXCEPT !.cmps[Top(M).idx].content = Top(M).obj]} : Becomes(m)

\* handleInclude, lines 163-181: the merged content is merged into ret
ReturnInclude ==
  /\ Returning("inc")
  /\ LET f == Top(M)
         ma == MergeArray(f.r, f.obj)
         mo == MergeObject(f.r, f.key, f.obj, getKeyPattern(f.key))
     IN \E m \in {IF isArray(f.obj)
                   THEN (IF ma.ok THEN Deliver(Pop(M), f.mode, f.addr, ma.ret, f.r, f.bn)
                         ELSE [M EXCEPT !.err = "structural"])
                   ELSE Bind(mo, LAMBDA x : Deliver(Pop(M), f.mode, f.addr, x, x, f.bn))} :
          Becomes(m)

\* handleInclude, lines 145-154: the next matched file is included, into
\* an object holding the directive alone
GlobNext ==
  /\ pc \in {"pass1", "pass2"}
  /\ Top(M).kind = "glob"
  /\ Top(M).i <= Len(Top(M).es)
  /\ LET f == Top(M)
         mf == f.es[f.i]
         basename == Stem(mf[Len(mf)])
     IN \E e \in {SetTop(M, [f EXCEPT !.i = @ + 1])} :
          \E m \in {handleInclude(e, "glob", 0, Obj(<< <<f.key, Str(mf)>> >>), f.key, Str(mf),
                                  f.file, Append(f.jp, basename), basename)} : Becomes(m)

\* handleInclude, lines 159-162 after the loop: the assembled object is
\* sliced and mergeRefs is called on it
GlobDone ==
  /\ pc \in {"pass1", "pass2"}
  /\ Top(M).kind = "glob"
  /\ Top(M).i > Len(Top(M).es)
  /\ LET f == Top(M)
     IN \E m \in {Push(Pop(M), WalkFrame(sliceObject(f.obj, f.hash), f.nextFile, f.jp, "inc",
                                        f.key, 0, f.mode, f.addr, f.r, f.bn))} : Becomes(m)

\* handleDiscriminator, lines 188-201: one entry of the mapping
DiscNext ==
  /\ pc \in {"pass1", "pass2"}
  /\ Top(M).kind = "disc"
  /\ Top(M).i <= Len(Top(M).es)
  /\ LET f == Top(M)
         mkey == f.es[f.i][1]
         mval == f.es[f.i][2]
         m1 == SetTop(M, [f EXCEPT !.i = @ + 1])
     IN \E e \in {m1} :
          \E m \in {IF parseUrl(mval.v).isLocal /\ get(e, mval.v) # 0
                    THEN [e EXCEPT !.skips = @ + 1]
                    ELSE IF Len(mval.v) > 0
                    THEN handleRef(e, f.addr, mkey, mval, f.file,
                                   f.jp \o <<"discriminator", mkey>>)
                    ELSE e} : Becomes(m)

\* handleDiscriminator returns
DiscDone ==
  /\ pc \in {"pass1", "pass2"}
  /\ Top(M).kind = "disc"
  /\ Top(M).i > Len(Top(M).es)
  /\ \E m \in {Pop(M)} : Becomes(m)

\* line 32: the first walk has returned, its value is dropped
Pass1Done ==
  /\ pc = "pass1"
  /\ Returning("root")
  /\ pc' = "discovered"
  /\ discovered' = [i \in 1..Len(manager) |-> manager[i].url]
  /\ stack' = <<>>
  /\ UNCHANGED <<doc, heap, manager, nameResolver, ret, out, err, walks, skips>>

\* lines 35-39: the names are resolved, and mergeRefs is called on the
\* document again with a registry seeded with them
Pass2 ==
  /\ pc = "discovered"
  /\ nameResolver' = ComponentNameResolver(manager)
  /\ manager' = <<>>
  /\ walks' = <<>>
  /\ skips' = 0
  /\ stack' = << WalkFrame(doc, currentFile, <<"$">>, "root", "", 0, "", 0, Undef, "") >>
  /\ pc' = "pass2"
  /\ UNCHANGED <<doc, heap, ret, out, err, discovered>>

\* line 39: the second walk has returned
Pass2Done ==
  /\ pc = "pass2"
  /\ Returning("root")
  /\ ret' = Top(M).obj
  /\ pc' = "merged"
  /\ stack' = <<>>
  /\ UNCHANGED <<doc, heap, manager, nameResolver, out, err, discovered, walks, skips>>

\* lines 40-44: the components section is merged in and the document returned
Return ==
  /\ pc = "merged"
  /\ out' = Bind(SetProp(ret, "components",
                         lodashMerge(IF isObject(Get(ret, "components"))
                                     THEN Get(ret, "components") ELSE Obj(<<>>),
                                     getComponentsSection(manager))),
                 LAMBDA x : Deref(x, heap))
  /\ pc' = "done"
  /\ UNCHANGED <<doc, heap, manager, nameResolver, ret, err, discovered, walks, skips, stack>>

Next ==
  \/ Pass1 \/ WalkRef \/ WalkInclude \/ WalkDiscriminator \/ WalkChild
  \/ ReturnChild \/ ReturnRef \/ ReturnInclude \/ GlobNext \/ GlobDone
  \/ DiscNext \/ DiscDone \/ Pass1Done \/ Pass2 \/ Pass2Done \/ Return

Spec == Init /\ [][Next]_vars

(***************************************************************************)
(* Properties.                                                             *)
(***************************************************************************)
\* the entries of an object or array, as a set
EntrySet(n) == {Entries(n)[i] : i \in 1..Len(Entries(n))}

RECURSIVE RefsIn(_, _)
\* the `$ref` strings of a tree at hoistable positions; under is the key the
\* enclosing object hangs at
RefsIn(n, under) ==
  IF ~isObject(n) THEN {}
  ELSE UNION {(IF e[1] = "$ref" /\ e[2].t = "s" /\ under \notin InlineKeys
               THEN {e[2].v} ELSE {}) \cup RefsIn(e[2], e[1]) : e \in EntrySet(n)}

RECURSIVE HasKeyIn(_, _)
\* some object of the tree has a key in ks
HasKeyIn(n, ks) ==
  /\ isObject(n)
  /\ \E e \in EntrySet(n) : e[1] \in ks \/ HasKeyIn(e[2], ks)

\* the input document as merge received it, and as it is now
Input == Deref(doc, RootTable)
InputNow == Deref(doc, heap)

\* the names of the output's components section
SectionHas(type, name) == Has(Get(Get(out, "components"), type), name)

\* C1: after merge returns, every `$ref` at a hoistable position of the
\* returned document (root tree and components section) is a pointer
\* #/components/<type>/<name> naming an entry of the output's components
\* section, references skipped by the same-document guard included
C1_OnlyLocalPointers ==
  pc = "done" =>
    \A r \in RefsIn(out, "") :
      /\ Len(r) = 4
      /\ r[1] = "#"
      /\ r[2] = "components"
      /\ SectionHas(r[3], r[4])

\* C1 happens: a merge returned a document in which the guard skipped a
\* reference, and the pointer "#/Pet" written inside schemas.yaml now names
\* the hoisted component
C1_Witness ==
  /\ pc = "done"
  /\ skips > 0
  /\ Has(doc, "pets")
  /\ <<"#", "components", "schemas", "Pet">> \in RefsIn(out, "")
  /\ <<"#", "Pet">> \in RefsIn(SchemasFile, "")

\* C3: a merge of an input without inclusion directives, whose reference
\* cycles all lie inside one document, does not fail: its calls never nest
\* without end
C3_CyclesTerminate ==
  ~HasKeyIn(Input, IncludeKeys) => pc # "failed"

RECURSIVE SequenceIntoMap(_)
\* some map of the tree has an inclusion directive whose file holds a
\* sequence, next to at least one other key
SequenceIntoMap(n) ==
  /\ isObject(n)
  /\ \/ /\ ~isArray(n)
        /\ Len(n.kv) > 1
        /\ \E e \in EntrySet(n) :
             /\ IsIncludeKey(e[1])
             /\ isArray(FileAt(PathJoin(Cwd, e[2].v)).content)
     \/ \E e \in EntrySet(n) : SequenceIntoMap(e[2])

\* C5: a sequence included into a map with other keys makes merge fail with
\* the structural error, wherever the directive stands among the keys; a
\* map whose only key is the directive becomes the sequence
C5_SequenceIntoMapFails ==
  /\ SequenceIntoMap(Input) => pc # "done"
  /\ pc = "done" /\ Has(doc, "only") => Get(out, "only") = ListFile

\* C8: when a pass has completed, no component's content was merged twice
\* in it, however many reference sites resolve to the component
C8_MergedOnce ==
  pc \in {"discovered", "merged"} =>
    \A i, j \in 1..Len(walks) : walks[i] = walks[j] => i = j

RECURSIVE MappingsIn(_)
\* the discriminator mappings of a tree
MappingsIn(n) ==
  IF ~isObject(n) THEN {}
  ELSE UNION {(IF e[1] = "discriminator" /\ isObject(e[2]) /\ Has(e[2], "mapping")
               THEN {Get(e[2], "mapping")} ELSE {}) \cup MappingsIn(e[2]) : e \in EntrySet(n)}

\* the reference strings of a tree: its `$ref` values and the non-empty
\* targets of its discriminator mappings
SiteRefs(n) ==
  RefsIn(n, "") \cup UNION {{e[2].v : e \in {f \in EntrySet(m) : Len(f[2].v) > 0}} : m \in MappingsIn(n)}

\* a file as written, every mapping in place
Written(p) == IF p = currentFile THEN Input ELSE Deref(FileAt(p).content, FileAt(p).table)

RECURSIVE Closure(_, _)
\* the canonical keys the references todo (pairs of file and reference
\* string) lead to, directly or through the content they name, besides seen
Closure(todo, seen) ==
  IF todo = {} THEN seen
  ELSE LET t == CHOOSE x \in todo : TRUE
           url == RefTarget(parseUrl(t[2]), parseUrl(t[1]), t[2])
           pUrl == parseUrl(url)
           content == sliceObject(Written(pUrl.hrefWoHash), pUrl.hash)
       IN IF url \in seen THEN Closure(todo \ {t}, seen)
          ELSE Closure((todo \ {t}) \cup {<<pUrl.hrefWoHash, r>> : r \in SiteRefs(content)},
                       seen \cup {url})

\* the distinct targets the input document references
Targets == Closure({<<currentFile, r>> : r \in SiteRefs(Input)}, {})

\* the entries of the output's components section, as pairs of type and name
SectionEntries ==
  UNION {{<<e[1], f[1]>> : f \in EntrySet(e[2])} : e \in EntrySet(Get(out, "components"))}

\* the keys of S that lie outside the root document
External(S) == {u \in S : parseUrl(u).hrefWoHash # currentFile}

\* C2: the registry never holds two components of one canonical key, and
\* for an input without inclusion directives and without a components
\* section of its own, the N distinct external targets it references, from
\* however many sites, are the external components of the final registry,
\* each component making one entry of the final components section
C2_NoDuplication ==
  /\ \A i, j \in 1..Len(manager) : manager[i].url = manager[j].url => i = j
  /\ pc = "done" /\ ~HasKeyIn(Input, IncludeKeys \cup {"components"}) =>
       /\ External({manager[i].url : i \in 1..Len(manager)}) = External(Targets)
       /\ Cardinality(SectionEntries) = Len(manager)

\* C4: an input with no `$ref`, no inclusion directive and no discriminator
\* is returned as it was, with a components section added when it had none
C4_PlainUnchanged ==
  ~HasKeyIn(Input, IncludeKeys \cup {"$ref", "discriminator"}) =>
    /\ pc # "failed"
    /\ pc = "done" =>
         out = IF Has(Input, "components") THEN Input
               ELSE SetProp(Input, "components", Obj(<<>>))

\* the entries of the mapping written inM in file are resolved in outM: an
\* external target holds the local pointer of the component registered for
\* it, a local pointer already in its final form is kept
MappingResolved(inM, outM, file) ==
  \A e \in EntrySet(inM) :
    IF parseUrl(e[2].v).isLocal THEN Get(outM, e[1]) = e[2]
    ELSE \E i \in 1..Len(manager) :
           /\ manager[i].url = RefTarget(parseUrl(e[2].v), parseUrl(file), e[2].v)
           /\ Get(outM, e[1]) = Str(getLocalRef(manager[i]))

\* the mapping of the discriminator of the object o
MappingOf(o) == Get(Get(o, "discriminator"), "mapping")

\* C6: in the returned document every discriminator mapping entry with an
\* external target holds the local pointer of the component registered for
\* that target, and an entry that was a local pointer keeps its value
C6_MappingResolved ==
  pc = "done" =>
    /\ Has(doc, "Animal") =>
         MappingResolved(RootTable[1], MappingOf(Get(out, "Animal")), currentFile)
    /\ Has(doc, "zoo") =>
         MappingResolved(ZooTable[1],
                         MappingOf(Get(Get(Get(out, "components"), "schemas"), "Zoo")),
                         Cwd \o <<"Zoo.yaml">>)

\* C7: a directive whose pattern matches k > 1 files becomes a map of
\* exactly k keys, the stems of the matched files, each holding its file's
\* merged content
C7_GlobKeys ==
  pc = "done" =>
    \A e \in EntrySet(Input) :
      ~isArray(e[2]) /\ Has(e[2], "$include") /\ Len(e[2].kv) = 1 =>
        LET files == GlobSync(PathJoin(Cwd, Get(e[2], "$include").v))
            o == Get(out, e[1])
        IN Len(files) > 1 =>
             /\ ~isArray(o)
             /\ Len(o.kv) = Len(files)
             /\ \A i \in 1..Len(files) :
                  /\ Has(o, Stem(files[i][Len(files[i])]))
                  /\ RefsIn(FileAt(files[i]).content, "") = {} =>
                       Get(o, Stem(files[i][Len(files[i])])) = FileAt(files[i]).content

\* the sequence an element of a sequence merges to, <<>> when it merges to
\* something else
MergedSequence(item) ==
  IF isArray(item) THEN <<item.items>>
  ELSE IF isObject(item) /\ Len(item.kv) = 1 /\ Has(item, "$include")
          /\ isArray(FileAt(PathJoin(Cwd, Get(item, "$include").v)).content)
  THEN <<FileAt(PathJoin(Cwd, Get(item, "$include").v)).content.items>>
  ELSE <<>>

RECURSIVE Spliced(_, _)
\* the elements of items from position i on, every element that merges to
\* a sequence replaced by that sequence's elements
Spliced(items, i) ==
  IF i > Len(items) THEN <<>>
  ELSE (IF MergedSequence(items[i]) # <<>> THEN MergedSequence(items[i])[1] ELSE <<items[i]>>)
       \o Spliced(items, i + 1)

\* C9: a sequence is returned with every element that merged to a sequence
\* replaced, in place, by that sequence's elements, and every other element
\* once and in order
C9_SplicedInPlace ==
  pc = "done" =>
    \A e \in EntrySet(Input) :
      isArray(e[2]) => Get(out, e[1]) = Arr(Spliced(e[2].items, 1))


\* C10: the first walk leaves the input document as it was, and the second
\* walk registers the canonical keys the name resolver was given
C10_InputUnchanged ==
  /\ pc = "discovered" => InputNow = Input
  /\ pc = "merged" =>
       {manager[i].url : i \in 1..Len(manager)} = {discovered[i] : i \in 1..Len(discovered)}


====
